---- MODULE Spec2Model ----
(***************************************************************************)
(* The safety-supervised motion control loops of the AlphaMini scripts:   *)
(*   obstacle : src/codes/corne_code_safety.py                             *)
(*   battery  : src/codes/final_codes/Low battery detection safety.py      *)
(*   posture  : src/codes/final_codes/Posture Stability Safety.py          *)
(*   override : src/codes/final_codes/Override Control Safety.py           *)
(* Each script is one asyncio program.  A run of the model is a run of    *)
(* one of them, chosen by `variant`.                                       *)
(*                                                                         *)
(* asyncio is cooperative: a task gives up the event loop only at an      *)
(* await that suspends.  A task whose pc is in RunPcs holds the event     *)
(* loop; every other step (a timer running out, an SDK call returning, a  *)
(* console line arriving, time passing) waits until no task holds it.     *)
(*                                                                         *)
(* Time is counted in ticks of 50 ms, so 0.4 s is 8 ticks and 0.35 s is   *)
(* 7.  Distances are integers in cm; the median is kept in half           *)
(* centimetres because the median of an even window is a mean of two.     *)
(*                                                                         *)
(* The sources spell some of Python's double-underscore names with single *)
(* underscores.  corne_code_safety.py ends in `if _name_ == "_main_"`;    *)
(* the model starts where main() has connected and entered                *)
(* avoid_obstacles().  PostureProvider._init_ is read as the constructor: *)
(* posture_monitor() is given a provider whose fields are set.            *)
(* MockBattery._init_ is modelled both ways: as written, Python never     *)
(* calls it, MockBattery() has no pct and the first tick() raises         *)
(* AttributeError, which ends the return task (pct = NoAttribute); as     *)
(* the constructor it was written to be, pct starts at                    *)
(* TESTING_BATTERY_START.  A run of the battery script is either.         *)
(* The vendor SDK (package mini) is the environment: a call takes 1..MaxIO *)
(* ticks and ends with either result.                                      *)
(***************************************************************************)
EXTENDS Integers, Sequences, FiniteSets, TLC

VARIABLES
  variant,            \* which script runs: "obstacle", "battery", "posture", "override"
  pc,                 \* task -> position
  timer,              \* task -> ticks left of its sleep or SDK call
  frame,              \* task -> the dispatch call it is in: arguments, return site
  estop_event,        \* estop_event (obstacle, posture), _estop (battery)
  since_cmd,          \* ticks since the last MoveRobot completed, capped at AgeCap;
                      \* obstacle/battery: now - _last_cmd_ts / _last_move_ts
  inflight,           \* MoveRobot commands sent and not yet answered
  sent,               \* the last command handed to MoveRobot(...).execute()
  reported,           \* what was printed/logged for the last answered command
  stop_in_flight,     \* the listener set the flag while a command was in flight
  distance_buf,       \* obstacle: _distance_buf
  consecutive_close,  \* obstacle: _consecutive_close
  consecutive_fail,   \* obstacle: _consecutive_fail
  last_read,          \* obstacle: what the last get_distance_cm() answered:
                      \* "failed" (None), "out_of_range", "valid"; "none" before any
  none_run,           \* obstacle: how many reads in a row answered None (capped)
  prev_read,          \* obstacle: last_read before the last read
  valid_reads,        \* obstacle: how many readings within 1..5000 cm were read (capped)
  ref_buf,            \* obstacle: the window a filter holds that was only ever given
                      \* the readings within 1..5000 cm
  is_returning,       \* battery: _is_returning
  pct,                \* battery: MockBattery.pct
  told_low,           \* battery: told_low of low_battery_return_loop
  route_i,            \* battery: the RETURN_ROUTE step go_to_idle_hub is at (0: not begun)
  sim,                \* posture: PostureProvider.sim
  sim_pitch,          \* posture: PostureProvider.sim_pitch, degrees
  sim_roll,           \* posture: PostureProvider.sim_roll, degrees
  warn_count,         \* posture: warn_count of posture_monitor
  trip_count,         \* posture: trip_count of posture_monitor
  level,              \* posture: the band of the last sample: "ok", "warn", "trip";
                      \* "none" before any
  emitted,            \* posture: what the last sample led to: "nothing", "warning"
                      \* (the [WARN] line), "recovery" (recovery_sequence)
  read_kind,          \* posture: how the last get_pitch_roll() got its answer: "sim",
                      \* or the way the SDK call ended (ReadKinds); "none" before any
  override_event,     \* override: override_event
  shutdown_event,     \* override: shutdown_event
  console_line        \* override: the last line the console read; "none" before any

sharedVars == <<variant, pc, timer, frame, estop_event, since_cmd, inflight, sent,
                reported, stop_in_flight>>
obsVars == <<distance_buf, consecutive_close, consecutive_fail, last_read, none_run,
             prev_read, valid_reads, ref_buf>>
batVars == <<is_returning, pct, told_low, route_i>>
posVars == <<sim, sim_pitch, sim_roll, warn_count, trip_count, level, emitted, read_kind>>
ovrVars == <<override_event, shutdown_event, console_line>>
vars == <<sharedVars, obsVars, batVars, posVars, ovrVars>>
notObs == <<batVars, posVars, ovrVars>>
notBat == <<obsVars, posVars, ovrVars>>
notPos == <<obsVars, batVars, ovrVars>>
notOvr == <<obsVars, batVars, posVars>>

----------------------------------------------------------------------------
(* Bounds of the model *)

\* an SDK call (sensor read, MoveRobot) answers within 1..MaxIO ticks
MaxIO == 2
\* the simulated pitch and roll stay within MaxSimSteps adjustments of 5 degrees from 0
MaxSimSteps == 4
\* a caller of the gateway asks for steps from -MaxExcess to MAX_STEP + MaxExcess
MaxExcess == 2

----------------------------------------------------------------------------
(* Configuration of corne_code_safety.py *)

STEP_SIZE == 1
BACKWARD_STEPS == 2
\* 2 s
SLEEP_DURATION == 40
SAFE_DISTANCE_CM == 20
MEDIAN_WINDOW == 3
OBSTACLE_CONFIRM_READS == 2
HARD_STOP_CM == 8
SENSOR_FAILURE_LIMIT == 5
MAX_STEP == 6
\* 0.4 s
MIN_COMMAND_INTERVAL == 8
\* asyncio.sleep(0.5) after a failed read, asyncio.sleep(0.2) after a discarded one
FAIL_SLEEP == 10
DISCARD_SLEEP == 4

----------------------------------------------------------------------------
(* Shared helpers *)

Tasks == {"main", "battery", "listener", "auto"}

Min2(a, b) == IF a < b THEN a ELSE b
Max2(a, b) == IF a > b THEN a ELSE b

\* since_cmd saturates here: every interval of the scripts is at most this
AgeCap == MIN_COMMAND_INTERVAL

NoCmd == [task |-> "none", dir |-> "NONE", step |-> 0, req |-> 0,
          call_flag |-> FALSE, start_flag |-> FALSE, gap |-> AgeCap, overlap |-> FALSE]
NoFrame == [dir |-> "NONE", step |-> 0, req |-> 0, ret |-> "none", flag |-> FALSE, ok |-> FALSE]

\* positions at which a task holds the event loop (between two suspending awaits)
RunPcs == {"loop", "dispatch", "returned", "route"}
\* positions at which a task waits for a timer (asyncio.sleep or an SDK call)
TimedPcs == {"get_distance", "sleep", "rate_sleep", "execute", "sleep_forward",
             "sleep_poll", "sleep_pre", "sleep_step", "pause", "get_attitude",
             "cooldown", "idle", "sleep_mid"}
\* a task that was created and has not run yet: it runs as soon as the loop is free
ReadyPcs == {"start", "woken"}

Running == \E t \in Tasks : pc[t] \in RunPcs
Due(t) == pc[t] \in TimedPcs /\ timer[t] = 0 /\ ~Running

Go(t, label, tm) ==
  /\ pc' = [pc EXCEPT ![t] = label]
  /\ timer' = [timer EXCEPT ![t] = tm]

\* block = MoveRobot(step, direction); await block.execute(): the command leaves
Issue(t, dir, step, res) ==
  /\ inflight' = inflight \cup {[task |-> t, dir |-> dir, step |-> step, result |-> res]}
  /\ sent' = [task |-> t, dir |-> dir, step |-> step, req |-> frame[t].req,
              call_flag |-> frame[t].flag, start_flag |-> estop_event,
              gap |-> since_cmd, overlap |-> inflight # {}]

Results == {"Success", "Failed"}

----------------------------------------------------------------------------
(* corne_code_safety.py *)

RECURSIVE Insert(_, _)
Insert(x, s) ==
  IF s = <<>> THEN <<x>>
  ELSE IF x <= Head(s) THEN <<x>> \o s
  ELSE <<Head(s)>> \o Insert(x, Tail(s))

RECURSIVE sorted(_)
sorted(values) ==
  IF values = <<>> THEN <<>> ELSE Insert(Head(values), sorted(Tail(values)))

\* median(values), in half centimetres; -1 stands for None
median(values) ==
  IF values = <<>> THEN -1
  ELSE LET s == sorted(values)
           mid == Len(s) \div 2
       IN IF Len(s) % 2 = 1 THEN 2 * s[mid + 1]
          ELSE s[mid] + s[mid + 1]

\* a window that drops the newest sample when it is full (the slip C12 rules out)
deque_append_keeps_oldest(buf, x) ==
  IF Len(buf) >= MEDIAN_WINDOW THEN buf ELSE buf \o <<x>>

\* deque(maxlen=MEDIAN_WINDOW).append
deque_append(buf, x) ==
  IF Len(buf) >= MEDIAN_WINDOW THEN Tail(buf) \o <<x>> ELSE buf \o <<x>>

\* the readings GetInfraredDistance may answer; "None" is a failed read
DistanceSamples == {0, 5, 8, 15, 20, 30, 5001}

(* Faulty variants of the guards below.  Each one is a slip the property *)
(* named with it rules out.                                               *)

\* C1: a gateway that does not look at the flag
safe_move_unguarded(flag) == FALSE

\* C3: a gateway that dispatches although the flag is set
safe_move_robot_unguarded(flag) == FALSE

\* C4: a stop_all() that clears the flag
stop_all_clears == FALSE

\* C5: a monitor loop that does not look at the flag
posture_monitor_forever(flag) == TRUE

\* C6: a clamp without the lower limit
clamp_step_upper_only(step) == Min2(step, MAX_STEP)

\* C9: a failure limit that is passed only by the read after it
failures_over_limit(n) == n > SENSOR_FAILURE_LIMIT

\* C11: a sanity check without the upper limit
out_of_range_below_only(distance) == distance <= 0

\* C15: an avoidance that is confirmed by the first close reading
obstacle_confirmed_at_once(close) == close >= 1

\* C16: a loop without the hard-stop test
hard_stop_skipped(filt) == FALSE

\* C17: a hard stop that does not set the flag
hard_stop_resumes == FALSE

\* C21: a return that is begun without the latch being set
is_returning_not_set == FALSE

\* C23: a listener that adjusts the simulated attitude on a real IMU too
sim_controls_always(s) == TRUE

\* C24: a manual mode in which every key steps forward
manual_direction_forward(cmd) == "Forward"

\* C25: a soft band that takes in SAFE_DISTANCE_CM itself
too_close_inclusive(filt) == filt <= 2 * SAFE_DISTANCE_CM

\* C26: a wander loop that ends when a command was not ok
wander_stops_on_failure(flag, returning) == ~flag /\ ~returning /\ reported # "Failed"

\* C30: a loop without the sanity check
out_of_range_never(distance) == FALSE

\* C10: a sanity check that lets a reading of 0 cm through
out_of_range_above_only(distance) == distance < 0 \/ distance > 5000

\* while not estop_event.is_set()
avoid_obstacles_continues(flag) == ~flag

\* if _consecutive_fail >= SENSOR_FAILURE_LIMIT
too_many_failures(n) == n >= SENSOR_FAILURE_LIMIT

\* if distance <= 0 or distance > 5000
out_of_range(distance) == distance <= 0 \/ distance > 5000

\* if filt < HARD_STOP_CM, filt in half centimetres
hard_stop(filt) == filt < 2 * HARD_STOP_CM

\* if filt < SAFE_DISTANCE_CM, filt in half centimetres
too_close(filt) == filt < 2 * SAFE_DISTANCE_CM

\* if _consecutive_close >= OBSTACLE_CONFIRM_READS
obstacle_confirmed(close) == close >= OBSTACLE_CONFIRM_READS

\* estop_event.set() after the hard stop's BACKWARD
hard_stop_latches == TRUE

\* step = max(1, min(int(step), MAX_STEP))
clamp_step(step) == Max2(1, Min2(step, MAX_STEP))

\* if estop_event.is_set(): return
safe_move_robot_suppressed(flag) == flag

\* dt = now - _last_cmd_ts; sleep(MIN_COMMAND_INTERVAL - dt) if dt < MIN_COMMAND_INTERVAL
rate_limit_wait(dt) ==
  IF dt < MIN_COMMAND_INTERVAL THEN MIN_COMMAND_INTERVAL - dt ELSE 0

Call(t, dir, step, ret) ==
  /\ frame' = [frame EXCEPT ![t] = [dir |-> dir, step |-> step, req |-> step, ret |-> ret,
                                    flag |-> estop_event, ok |-> FALSE]]
  /\ Go(t, "dispatch", 0)

\* while not estop_event.is_set(): distance = await get_distance_cm()
avoid_obstacles_loop ==
  /\ variant = "obstacle" /\ pc["main"] = "loop"
  /\ IF avoid_obstacles_continues(estop_event)
       THEN \E d \in 1..MaxIO : Go("main", "get_distance", d)
       ELSE Go("main", "done", 0)
  /\ UNCHANGED <<notObs, variant, frame, estop_event, since_cmd, inflight, sent, reported,
                 stop_in_flight, obsVars>>

\* get_distance_cm() answered None
avoid_obstacles_read_failed ==
  /\ variant = "obstacle" /\ pc["main"] = "get_distance" /\ Due("main")
  /\ consecutive_fail' = consecutive_fail + 1
  /\ last_read' = "failed"
  /\ prev_read' = last_read
  /\ none_run' = Min2(none_run + 1, SENSOR_FAILURE_LIMIT + 1)
  /\ IF too_many_failures(consecutive_fail')
       THEN estop_event' = TRUE /\ Go("main", "done", 0)
       ELSE estop_event' = estop_event /\ Go("main", "sleep", FAIL_SLEEP)
  /\ UNCHANGED <<notObs, variant, frame, since_cmd, inflight, sent, reported, stop_in_flight,
                 distance_buf, consecutive_close, valid_reads, ref_buf>>

\* get_distance_cm() answered a distance: sanity check, median, hard stop, debounce
avoid_obstacles_read(distance) ==
  /\ variant = "obstacle" /\ pc["main"] = "get_distance" /\ Due("main")
  /\ consecutive_fail' = 0
  /\ last_read' = IF distance <= 0 \/ distance > 5000 THEN "out_of_range" ELSE "valid"
  /\ none_run' = 0
  /\ prev_read' = last_read
  /\ valid_reads' = IF distance <= 0 \/ distance > 5000 THEN valid_reads
                    ELSE Min2(valid_reads + 1, MEDIAN_WINDOW + 1)
  /\ ref_buf' = IF distance <= 0 \/ distance > 5000 THEN ref_buf
                ELSE IF Len(ref_buf) >= 3 THEN Tail(ref_buf) \o <<distance>>
                ELSE ref_buf \o <<distance>>
  /\ IF out_of_range(distance)
       THEN /\ Go("main", "sleep", DISCARD_SLEEP)
            /\ UNCHANGED <<frame, distance_buf, consecutive_close>>
       ELSE LET buf == deque_append(distance_buf, distance)
                filt == median(buf)
                close == IF too_close(filt) THEN consecutive_close + 1 ELSE 0
            IN /\ distance_buf' = buf
               /\ IF hard_stop(filt)
                    THEN /\ Call("main", "BACKWARD", Max2(BACKWARD_STEPS, 2), "hard")
                         /\ UNCHANGED consecutive_close
                    ELSE /\ consecutive_close' = close
                         /\ IF obstacle_confirmed(close)
                              THEN Call("main", "BACKWARD", BACKWARD_STEPS, "avoid_back")
                              ELSE Call("main", "FORWARD", STEP_SIZE, "forward")
  /\ UNCHANGED <<notObs, variant, estop_event, since_cmd, inflight, sent, reported, stop_in_flight>>

\* safe_move_robot, from its entry to its first suspending await
safe_move_robot_enter ==
  /\ variant = "obstacle" /\ pc["main"] = "dispatch"
  /\ IF safe_move_robot_suppressed(estop_event)
       THEN /\ Go("main", "returned", 0)
            /\ UNCHANGED <<frame, inflight, sent>>
       ELSE LET step == clamp_step(frame["main"].step)
                wait == rate_limit_wait(since_cmd)
            IN /\ frame' = [frame EXCEPT !["main"].step = step]
               /\ IF wait > 0
                    THEN Go("main", "rate_sleep", wait) /\ UNCHANGED <<inflight, sent>>
                    ELSE \E d \in 1..MaxIO, res \in Results :
                           /\ Go("main", "execute", d)
                           /\ Issue("main", frame["main"].dir, step, res)
  /\ UNCHANGED <<notObs, variant, estop_event, since_cmd, reported, stop_in_flight, obsVars>>

\* safe_move_robot: asyncio.sleep(MIN_COMMAND_INTERVAL - dt) is over, the command leaves
safe_move_robot_send ==
  /\ variant = "obstacle" /\ pc["main"] = "rate_sleep" /\ Due("main")
  /\ \E d \in 1..MaxIO, res \in Results :
       /\ Go("main", "execute", d)
       /\ Issue("main", frame["main"].dir, frame["main"].step, res)
  /\ UNCHANGED <<notObs, variant, frame, estop_event, since_cmd, reported, stop_in_flight, obsVars>>

\* safe_move_robot: block.execute() answered; _last_cmd_ts = now; warn on failure
safe_move_robot_done ==
  /\ variant = "obstacle" /\ pc["main"] = "execute" /\ Due("main")
  /\ \E c \in inflight :
       /\ c.task = "main"
       /\ inflight' = inflight \ {c}
       /\ reported' = c.result
  /\ since_cmd' = 0
  /\ Go("main", "returned", 0)
  /\ UNCHANGED <<notObs, variant, frame, estop_event, sent, stop_in_flight, obsVars>>

\* avoid_obstacles after safe_move_robot returned
avoid_obstacles_after ==
  /\ variant = "obstacle" /\ pc["main"] = "returned"
  /\ LET ret == frame["main"].ret
     IN CASE ret = "hard" ->
               /\ estop_event' = hard_stop_latches
               /\ Go("main", "done", 0)
               /\ UNCHANGED <<frame, consecutive_close>>
          [] ret = "avoid_back" ->
               /\ Call("main", "RIGHTWARD", 2, "avoid_turn")
               /\ UNCHANGED <<estop_event, consecutive_close>>
          [] ret = "avoid_turn" ->
               /\ consecutive_close' = 0
               /\ Go("main", "sleep", SLEEP_DURATION)
               /\ UNCHANGED <<estop_event, frame>>
          [] OTHER ->
               /\ ret = "forward"
               /\ Go("main", "sleep", SLEEP_DURATION)
               /\ UNCHANGED <<estop_event, frame, consecutive_close>>
  /\ UNCHANGED <<notObs, variant, since_cmd, inflight, sent, reported, stop_in_flight,
                 distance_buf, consecutive_fail, last_read, none_run, prev_read,
                 valid_reads, ref_buf>>

\* an asyncio.sleep of the loop body is over: back to the loop condition
avoid_obstacles_wake ==
  /\ variant = "obstacle" /\ pc["main"] = "sleep" /\ Due("main")
  /\ Go("main", "loop", 0)
  /\ UNCHANGED <<notObs, variant, frame, estop_event, since_cmd, inflight, sent, reported,
                 stop_in_flight, obsVars>>

\* estop_listener starts: the first run_in_executor(sys.stdin.readline)
obstacle_listener_start ==
  /\ variant = "obstacle" /\ pc["listener"] = "start" /\ ~Running
  /\ Go("listener", IF estop_event THEN "done" ELSE "readline", 0)
  /\ UNCHANGED <<notObs, variant, frame, estop_event, since_cmd, inflight, sent, reported,
                 stop_in_flight, obsVars>>

\* the lines an operator may type; "other" stands for every line no script reads
ObstacleLines == {"e", "other"}

\* estop_listener: a line arrived
obstacle_listener_line(line) ==
  /\ variant = "obstacle" /\ pc["listener"] = "readline" /\ ~Running
  /\ IF line = "e"
       THEN /\ estop_event' = TRUE
            /\ stop_in_flight' = (stop_in_flight \/ inflight # {})
            /\ Go("listener", "done", 0)
       ELSE /\ Go("listener", IF estop_event THEN "done" ELSE "readline", 0)
            /\ UNCHANGED <<estop_event, stop_in_flight>>
  /\ UNCHANGED <<notObs, variant, frame, since_cmd, inflight, sent, reported, obsVars>>

ObstacleNext ==
  \/ avoid_obstacles_loop
  \/ avoid_obstacles_read_failed
  \/ \E d \in DistanceSamples : avoid_obstacles_read(d)
  \/ safe_move_robot_enter
  \/ safe_move_robot_send
  \/ safe_move_robot_done
  \/ avoid_obstacles_after
  \/ avoid_obstacles_wake
  \/ obstacle_listener_start
  \/ \E line \in ObstacleLines : obstacle_listener_line(line)

----------------------------------------------------------------------------
(* Low battery detection safety.py *)

BATTERY_LOW_THRESHOLD == 20
\* 5 s
CHECK_INTERVAL_S == 100
STEP_MIN == 1
STEP_MAX == 6
\* 0.4 s
RATE_LIMIT_S == 8
TESTING_BATTERY_START == 35
TESTING_DRAIN_PER_CYCLE == 3
RETURN_ROUTE == << <<"FORWARD", 4>>, <<"LEFT", 2>>, <<"FORWARD", 6>>,
                   <<"RIGHT", 2>>, <<"FORWARD", 4>> >>
\* the sleeps of connect_and_run (1.2 s, 0.8 s), of low_battery_return_loop (0.8 s),
\* of go_to_idle_hub (0.6 s) and of estop_listener (0.05 s)
WANDER_FORWARD_SLEEP == 24
WANDER_LEFT_SLEEP == 16
PRE_RETURN_SLEEP == 16
PATH_STEP_SLEEP == 12
LISTENER_PAUSE == 1

Movers == {"main", "battery"}

\* _clamp_steps
clamp_steps(n) == Max2(STEP_MIN, Min2(STEP_MAX, n))

\* if _estop.is_set(): return False
safe_move_suppressed(flag) == flag

\* to_wait = max(0.0, RATE_LIMIT_S - (time.time() - _last_move_ts))
to_wait(elapsed) == Max2(0, RATE_LIMIT_S - elapsed)

\* stop_all(): _estop.set()
stop_all == TRUE

\* while not _estop.is_set() and not _is_returning.is_set()
wander_continues(flag, returning) == ~flag /\ ~returning

\* while not _estop.is_set()
return_loop_continues(flag) == ~flag

\* if pct <= BATTERY_LOW_THRESHOLD and not _is_returning.is_set()
return_triggered(p, returning) == p <= BATTERY_LOW_THRESHOLD /\ ~returning

\* _is_returning.set()
is_returning_set == TRUE

\* MockBattery.tick
MockBattery_tick(p) == Max2(0, p - TESTING_DRAIN_PER_CYCLE)

\* MockBattery() when _init_ was not run: the instance has no attribute pct
NoAttribute == 0 - 1

\* safe_move, from its entry to its first suspending await
safe_move_enter(t) ==
  /\ variant = "battery" /\ pc[t] = "dispatch"
  /\ IF safe_move_suppressed(estop_event)
       THEN /\ Go(t, "returned", 0)
            /\ frame' = [frame EXCEPT ![t].ok = FALSE]
            /\ UNCHANGED <<inflight, sent>>
       ELSE LET steps == clamp_steps(frame[t].step)
                wait == to_wait(since_cmd)
            IN /\ frame' = [frame EXCEPT ![t].step = steps]
               /\ IF wait > 0
                    THEN Go(t, "rate_sleep", wait) /\ UNCHANGED <<inflight, sent>>
                    ELSE \E d \in 1..MaxIO, res \in Results :
                           /\ Go(t, "execute", d)
                           /\ Issue(t, frame[t].dir, steps, res)
  /\ UNCHANGED <<notBat, variant, estop_event, since_cmd, reported, stop_in_flight, batVars>>

\* safe_move: asyncio.sleep(to_wait) is over, req.execute() begins
safe_move_send(t) ==
  /\ variant = "battery" /\ pc[t] = "rate_sleep" /\ Due(t)
  /\ \E d \in 1..MaxIO, res \in Results :
       /\ Go(t, "execute", d)
       /\ Issue(t, frame[t].dir, frame[t].step, res)
  /\ UNCHANGED <<notBat, variant, frame, estop_event, since_cmd, reported, stop_in_flight,
                 batVars>>

\* safe_move: req.execute() answered; _last_move_ts = time.time(); return ok
safe_move_done(t) ==
  /\ variant = "battery" /\ pc[t] = "execute" /\ Due(t)
  /\ \E c \in inflight :
       /\ c.task = t
       /\ inflight' = inflight \ {c}
       /\ reported' = c.result
       /\ frame' = [frame EXCEPT ![t].ok = (c.result = "Success")]
  /\ since_cmd' = 0
  /\ Go(t, "returned", 0)
  /\ UNCHANGED <<notBat, variant, estop_event, sent, stop_in_flight, batVars>>

\* connect_and_run: the wander loop's condition; on exit the tasks are cancelled
connect_and_run_loop ==
  /\ variant = "battery" /\ pc["main"] = "loop"
  /\ IF wander_continues(estop_event, is_returning)
       THEN /\ Call("main", "FORWARD", 2, "wander_forward")
            /\ UNCHANGED inflight
       ELSE /\ pc' = [t \in Tasks |->
                        IF t = "main" THEN "done"
                        ELSE IF pc[t] \in {"done", "raised", "absent"} THEN pc[t]
                        ELSE "cancelled"]
            /\ timer' = [t \in Tasks |-> 0]
            /\ inflight' = {}
            /\ UNCHANGED frame
  /\ UNCHANGED <<notBat, variant, estop_event, since_cmd, sent, reported, stop_in_flight,
                 batVars>>

\* connect_and_run after a safe_move returned: asyncio.sleep(1.2) or asyncio.sleep(0.8)
connect_and_run_after ==
  /\ variant = "battery" /\ pc["main"] = "returned"
  /\ IF frame["main"].ret = "wander_forward"
       THEN Go("main", "sleep_forward", WANDER_FORWARD_SLEEP)
       ELSE Go("main", "sleep", WANDER_LEFT_SLEEP)
  /\ UNCHANGED <<notBat, variant, frame, estop_event, since_cmd, inflight, sent, reported,
                 stop_in_flight, batVars>>

\* connect_and_run: asyncio.sleep(1.2) is over: safe_move(LEFT, 1)
connect_and_run_left ==
  /\ variant = "battery" /\ pc["main"] = "sleep_forward" /\ Due("main")
  /\ Call("main", "LEFT", 1, "wander_left")
  /\ UNCHANGED <<notBat, variant, estop_event, since_cmd, inflight, sent, reported,
                 stop_in_flight, batVars>>

\* connect_and_run: asyncio.sleep(0.8) is over: back to the loop condition
connect_and_run_wake ==
  /\ variant = "battery" /\ pc["main"] = "sleep" /\ Due("main")
  /\ Go("main", "loop", 0)
  /\ UNCHANGED <<notBat, variant, frame, estop_event, since_cmd, inflight, sent, reported,
                 stop_in_flight, batVars>>

\* low_battery_return_loop: the task's first run, and each return from the poll sleep
low_battery_return_loop_wake ==
  /\ variant = "battery" /\ ~Running
  /\ \/ pc["battery"] = "start"
     \/ pc["battery"] = "sleep_poll" /\ timer["battery"] = 0
  /\ Go("battery", "loop", 0)
  /\ UNCHANGED <<notBat, variant, frame, estop_event, since_cmd, inflight, sent, reported,
                 stop_in_flight, batVars>>

\* low_battery_return_loop: one poll of the mock battery
low_battery_return_loop_poll ==
  /\ variant = "battery" /\ pc["battery"] = "loop"
  /\ IF return_loop_continues(estop_event)
       THEN IF pct = NoAttribute
              THEN \* self.pct raises AttributeError: the task ends there
                   Go("battery", "raised", 0) /\ UNCHANGED <<is_returning, pct, told_low>>
              ELSE /\ pct' = MockBattery_tick(pct)
                   /\ IF return_triggered(pct', is_returning)
                        THEN /\ is_returning' = is_returning_set
                             /\ told_low' = TRUE
                             /\ Go("battery", "sleep_pre", PRE_RETURN_SLEEP)
                        ELSE /\ Go("battery", "sleep_poll", CHECK_INTERVAL_S)
                             /\ UNCHANGED <<is_returning, told_low>>
       ELSE Go("battery", "done", 0) /\ UNCHANGED <<is_returning, pct, told_low>>
  /\ UNCHANGED <<notBat, variant, frame, estop_event, since_cmd, inflight, sent, reported,
                 stop_in_flight, route_i>>

\* go_to_idle_hub is entered (asyncio.sleep(0.8) is over), or asyncio.sleep(0.6) is over
go_to_idle_hub_next ==
  /\ variant = "battery" /\ pc["battery"] \in {"sleep_pre", "sleep_step"} /\ Due("battery")
  /\ route_i' = route_i + 1
  /\ Go("battery", "route", 0)
  /\ UNCHANGED <<notBat, variant, frame, estop_event, since_cmd, inflight, sent, reported,
                 stop_in_flight, is_returning, pct, told_low>>

\* go_to_idle_hub: one turn of the for loop; past its end, or on e-stop, the function
\* returns and low_battery_return_loop announces docking and calls stop_all()
go_to_idle_hub_step ==
  /\ variant = "battery" /\ pc["battery"] = "route"
  /\ IF route_i > Len(RETURN_ROUTE) \/ estop_event
       THEN /\ estop_event' = stop_all
            /\ Go("battery", "done", 0)
            /\ UNCHANGED frame
       ELSE /\ Call("battery", RETURN_ROUTE[route_i][1], RETURN_ROUTE[route_i][2], "route")
            /\ UNCHANGED estop_event
  /\ UNCHANGED <<notBat, variant, since_cmd, inflight, sent, reported, stop_in_flight,
                 batVars>>

\* go_to_idle_hub after safe_move returned: break if not ok, else asyncio.sleep(0.6)
go_to_idle_hub_after ==
  /\ variant = "battery" /\ pc["battery"] = "returned"
  /\ IF ~frame["battery"].ok
       THEN /\ estop_event' = stop_all
            /\ Go("battery", "done", 0)
       ELSE /\ Go("battery", "sleep_step", PATH_STEP_SLEEP)
            /\ UNCHANGED estop_event
  /\ UNCHANGED <<notBat, variant, frame, since_cmd, inflight, sent, reported,
                 stop_in_flight, batVars>>

\* estop_listener starts, or its asyncio.sleep(0.05) is over: the loop condition
battery_listener_wake ==
  /\ variant = "battery" /\ ~Running
  /\ \/ pc["listener"] = "start"
     \/ pc["listener"] = "pause" /\ timer["listener"] = 0
  /\ Go("listener", IF estop_event THEN "done" ELSE "readline", 0)
  /\ UNCHANGED <<notBat, variant, frame, estop_event, since_cmd, inflight, sent, reported,
                 stop_in_flight, batVars>>

BatteryLines == {"e", "other"}

\* estop_listener: a line arrived
battery_listener_line(line) ==
  /\ variant = "battery" /\ pc["listener"] = "readline" /\ ~Running
  /\ IF line = "e"
       THEN /\ estop_event' = TRUE
            /\ stop_in_flight' = (stop_in_flight \/ inflight # {})
            /\ Go("listener", "done", 0)
       ELSE /\ Go("listener", "pause", LISTENER_PAUSE)
            /\ UNCHANGED <<estop_event, stop_in_flight>>
  /\ UNCHANGED <<notBat, variant, frame, since_cmd, inflight, sent, reported, batVars>>

BatteryNext ==
  \/ \E t \in Movers : safe_move_enter(t)
  \/ \E t \in Movers : safe_move_send(t)
  \/ \E t \in Movers : safe_move_done(t)
  \/ connect_and_run_loop
  \/ connect_and_run_after
  \/ connect_and_run_left
  \/ connect_and_run_wake
  \/ low_battery_return_loop_wake
  \/ low_battery_return_loop_poll
  \/ go_to_idle_hub_next
  \/ go_to_idle_hub_step
  \/ go_to_idle_hub_after
  \/ battery_listener_wake
  \/ \E line \in BatteryLines : battery_listener_line(line)

----------------------------------------------------------------------------
(* Posture Stability Safety.py *)

SAFE_TILT_WARN == 10
SAFE_TILT_TRIP == 18
SAMPLE_HZ == 20
\* 0.35 s
MOVE_COOLDOWN == 7
MAX_STEPS == 6
DEBOUNCE == 3
\* dt = 1.0 / SAMPLE_HZ, in ticks of 1/20 s
dt == 20 \div SAMPLE_HZ

Abs(x) == IF x < 0 THEN -x ELSE x

\* clamp(v, lo, hi)
clamp(v, lo, hi) == Max2(lo, Min2(hi, v))

\* if estop_event.is_set(): return
move_safe_suppressed(flag) == flag

\* while not estop_event.is_set()
posture_monitor_continues(flag) == ~flag

\* the attitudes a real IMU may answer, degrees
TiltSamples == {-18, -10, 0, 9, 10, 17, 18}
\* how PostureProvider.get_pitch_roll's SDK call may end: it raises, it answers a
\* result other than Success, it answers an attitude (pitch/roll or ax/ay/az fields),
\* it answers a payload with neither
ReadKinds == {"raised", "failed", "attitude", "unknown"}

\* counters that keep the trip count through a warn-level sample (the slip C13
\* rules out)
count_sample_no_reset(pitch, roll, warn, trip) ==
  IF Abs(pitch) >= SAFE_TILT_TRIP \/ Abs(roll) >= SAFE_TILT_TRIP
    THEN [warn |-> 0, trip |-> trip + 1]
  ELSE IF Abs(pitch) >= SAFE_TILT_WARN \/ Abs(roll) >= SAFE_TILT_WARN
    THEN [warn |-> warn + 1, trip |-> trip]
  ELSE [warn |-> 0, trip |-> 0]

\* a warning that leaves its counter where it is (the slip C14 rules out)
warn_after_kept(warn) == warn

\* the debounced warn/trip counters after one sample
count_sample(pitch, roll, warn, trip) ==
  IF Abs(pitch) >= SAFE_TILT_TRIP \/ Abs(roll) >= SAFE_TILT_TRIP
    THEN [warn |-> 0, trip |-> trip + 1]
  ELSE IF Abs(pitch) >= SAFE_TILT_WARN \/ Abs(roll) >= SAFE_TILT_WARN
    THEN [warn |-> warn + 1, trip |-> 0]
  ELSE [warn |-> 0, trip |-> 0]

\* if warn_count >= DEBOUNCE: print, warn_count = 0
warn_after(warn) == IF warn >= DEBOUNCE THEN 0 ELSE warn

\* the band a sample lies in
band(pitch, roll) ==
  IF Abs(pitch) >= 18 \/ Abs(roll) >= 18 THEN "trip"
  ELSE IF Abs(pitch) >= 10 \/ Abs(roll) >= 10 THEN "warn"
  ELSE "ok"

\* posture_monitor from a sample to its next suspending await
posture_monitor_sample(pitch, roll) ==
  LET c == count_sample(pitch, roll, warn_count, trip_count)
  IN /\ warn_count' = warn_after(c.warn)
     /\ trip_count' = c.trip
     /\ level' = band(pitch, roll)
     /\ emitted' = IF c.trip >= 3 THEN "recovery"
                   ELSE IF c.warn >= 3 THEN "warning" ELSE "nothing"
     /\ IF c.trip >= DEBOUNCE
          THEN Call("main", "BACKWARD", 1, "recover_back")
          ELSE Go("main", "sleep", dt) /\ UNCHANGED frame

\* while not estop_event.is_set(): pitch, roll = await posture.get_pitch_roll()
posture_monitor_loop ==
  /\ variant = "posture" /\ pc["main"] = "loop"
  /\ IF ~posture_monitor_continues(estop_event)
       THEN /\ Go("main", "done", 0)
            /\ UNCHANGED <<frame, warn_count, trip_count, level, emitted, read_kind>>
       ELSE IF sim
         THEN posture_monitor_sample(sim_pitch, sim_roll) /\ read_kind' = "sim"
         ELSE /\ \E d \in 1..MaxIO : Go("main", "get_attitude", d)
              /\ UNCHANGED <<frame, warn_count, trip_count, level, emitted, read_kind>>
  /\ UNCHANGED <<notPos, variant, estop_event, since_cmd, inflight, sent, reported,
                 stop_in_flight, sim, sim_pitch, sim_roll>>

\* PostureProvider.get_pitch_roll: the SDK call ended
posture_monitor_read(kind, pitch, roll) ==
  /\ variant = "posture" /\ pc["main"] = "get_attitude" /\ Due("main")
  /\ read_kind' = kind
  /\ CASE kind = "attitude" -> sim' = sim /\ posture_monitor_sample(pitch, roll)
       [] kind = "failed" -> sim' = sim /\ posture_monitor_sample(0, 0)
       [] OTHER -> sim' = TRUE /\ posture_monitor_sample(sim_pitch, sim_roll)
  /\ UNCHANGED <<notPos, variant, estop_event, since_cmd, inflight, sent, reported,
                 stop_in_flight, sim_pitch, sim_roll>>

\* move_safe, from its entry to MoveRobot(direction, steps).execute()
move_safe_enter ==
  /\ variant = "posture" /\ pc["main"] = "dispatch"
  /\ IF move_safe_suppressed(estop_event)
       THEN /\ Go("main", "returned", 0)
            /\ UNCHANGED <<frame, inflight, sent>>
       ELSE LET steps == clamp(frame["main"].step, 1, MAX_STEPS)
            IN /\ frame' = [frame EXCEPT !["main"].step = steps]
               /\ \E d \in 1..MaxIO, res \in Results :
                    /\ Go("main", "execute", d)
                    /\ Issue("main", frame["main"].dir, steps, res)
  /\ UNCHANGED <<notPos, variant, estop_event, since_cmd, reported, stop_in_flight, posVars>>

\* move_safe: execute() answered; warn on failure; await asyncio.sleep(MOVE_COOLDOWN)
move_safe_done ==
  /\ variant = "posture" /\ pc["main"] = "execute" /\ Due("main")
  /\ \E c \in inflight :
       /\ c.task = "main"
       /\ inflight' = inflight \ {c}
       /\ reported' = c.result
  /\ since_cmd' = 0
  /\ Go("main", "cooldown", MOVE_COOLDOWN)
  /\ UNCHANGED <<notPos, variant, frame, estop_event, sent, stop_in_flight, posVars>>

\* move_safe: asyncio.sleep(MOVE_COOLDOWN) is over, the call returns
move_safe_return ==
  /\ variant = "posture" /\ pc["main"] = "cooldown" /\ Due("main")
  /\ Go("main", "returned", 0)
  /\ UNCHANGED <<notPos, variant, frame, estop_event, since_cmd, inflight, sent, reported,
                 stop_in_flight, posVars>>

\* recovery_sequence and posture_monitor after a move_safe returned
recovery_sequence_after ==
  /\ variant = "posture" /\ pc["main"] = "returned"
  /\ IF frame["main"].ret = "recover_back"
       THEN Call("main", "FORWARD", 1, "recover_forward") /\ UNCHANGED trip_count
       ELSE /\ trip_count' = 0
            /\ Go("main", "sleep", dt)
            /\ UNCHANGED frame
  /\ UNCHANGED <<notPos, variant, estop_event, since_cmd, inflight, sent, reported,
                 stop_in_flight, sim, sim_pitch, sim_roll, warn_count, level, emitted,
                 read_kind>>

\* posture_monitor: asyncio.sleep(dt) is over: back to the loop condition
posture_monitor_wake ==
  /\ variant = "posture" /\ pc["main"] = "sleep" /\ Due("main")
  /\ Go("main", "loop", 0)
  /\ UNCHANGED <<notPos, variant, frame, estop_event, since_cmd, inflight, sent, reported,
                 stop_in_flight, posVars>>

\* input_listener starts: the first run_in_executor(sys.stdin.readline)
input_listener_start ==
  /\ variant = "posture" /\ pc["listener"] = "start" /\ ~Running
  /\ Go("listener", IF estop_event THEN "done" ELSE "readline", 0)
  /\ UNCHANGED <<notPos, variant, frame, estop_event, since_cmd, inflight, sent, reported,
                 stop_in_flight, posVars>>

PostureLines == {"e", "tp", "tm", "rp", "rm", "r0", "?"}

\* input_listener: if posture.sim
sim_controls_enabled(s) == s

\* PostureProvider.sim_adjust: the new <<sim_pitch, sim_roll>>
sim_adjust(what, pitch, roll) ==
  CASE what = "tp" -> <<pitch + 5, roll>>
    [] what = "tm" -> <<pitch - 5, roll>>
    [] what = "rp" -> <<pitch, roll + 5>>
    [] what = "rm" -> <<pitch, roll - 5>>
    [] what = "r0" -> <<0, 0>>
    [] OTHER -> <<pitch, roll>>

\* input_listener: a line arrived
input_listener_line(cmd) ==
  /\ variant = "posture" /\ pc["listener"] = "readline" /\ ~Running
  /\ IF cmd = "e"
       THEN /\ estop_event' = TRUE
            /\ stop_in_flight' = (stop_in_flight \/ inflight # {})
            /\ Go("listener", "done", 0)
            /\ UNCHANGED <<sim_pitch, sim_roll>>
       ELSE /\ LET a == IF sim_controls_enabled(sim) /\ cmd \in {"tp", "tm", "rp", "rm", "r0"}
                          THEN sim_adjust(cmd, sim_pitch, sim_roll)
                          ELSE <<sim_pitch, sim_roll>>
               IN /\ Abs(a[1]) <= 5 * MaxSimSteps /\ Abs(a[2]) <= 5 * MaxSimSteps
                  /\ sim_pitch' = a[1]
                  /\ sim_roll' = a[2]
            /\ Go("listener", IF estop_event THEN "done" ELSE "readline", 0)
            /\ UNCHANGED <<estop_event, stop_in_flight>>
  /\ UNCHANGED <<notPos, variant, frame, since_cmd, inflight, sent, reported,
                 sim, warn_count, trip_count, level, emitted, read_kind>>

PostureNext ==
  \/ posture_monitor_loop
  \/ \E kind \in ReadKinds, pitch \in TiltSamples, roll \in TiltSamples :
       posture_monitor_read(kind, pitch, roll)
  \/ move_safe_enter
  \/ move_safe_done
  \/ move_safe_return
  \/ recovery_sequence_after
  \/ posture_monitor_wake
  \/ input_listener_start
  \/ \E cmd \in PostureLines : input_listener_line(cmd)

----------------------------------------------------------------------------
(* Override Control Safety.py                                              *)
(* main() creates autonomous_loop ("auto") and keyboard_listener           *)
(* ("listener", which runs manual_loop inside itself) and waits for        *)
(* shutdown_event.  The SDK calls are written .exec() there; they are      *)
(* modelled like the .execute() of the other scripts.                      *)

\* SLEEP_DURATION of this script, 0.8 s
OVERRIDE_SLEEP_DURATION == 16
\* asyncio.sleep(0.1) while overridden
OVERRIDE_PAUSE == 2
\* asyncio.sleep(0.2) after a failed read
OVERRIDE_FAIL_SLEEP == 4

OverrideMovers == {"auto", "listener"}

\* read_front_distance_cm() answered None
NoReading == 0 - 1
\* what read_front_distance_cm() may answer (a distance is clamped to 1..5000)
OverrideReadings == {NoReading, 15, 30}

\* if override_event.is_set(): await asyncio.sleep(0.1); continue
autonomy_paused(override) == override

\* if shutdown_event.is_set(): return
override_safe_move_suppressed(flag) == flag

\* the first run of autonomous_loop, and its return from a sleep of the loop body
autonomous_loop_wake ==
  /\ variant = "override" /\ ~Running
  /\ \/ pc["auto"] = "start"
     \/ pc["auto"] \in {"pause", "sleep"} /\ timer["auto"] = 0
  /\ Go("auto", "loop", 0)
  /\ UNCHANGED <<notOvr, variant, frame, estop_event, since_cmd, inflight, sent, reported,
                 stop_in_flight, ovrVars>>

\* autonomous_loop: the loop condition and the override test
autonomous_loop_top ==
  /\ variant = "override" /\ pc["auto"] = "loop"
  /\ IF shutdown_event
       THEN Go("auto", "done", 0)
       ELSE IF autonomy_paused(override_event)
         THEN Go("auto", "pause", OVERRIDE_PAUSE)
         ELSE \E d \in 1..MaxIO : Go("auto", "get_distance", d)
  /\ UNCHANGED <<notOvr, variant, frame, estop_event, since_cmd, inflight, sent, reported,
                 stop_in_flight, ovrVars>>

\* autonomous_loop: read_front_distance_cm() answered
autonomous_loop_read(dist) ==
  /\ variant = "override" /\ pc["auto"] = "get_distance" /\ Due("auto")
  /\ IF dist = NoReading
       THEN Go("auto", "sleep", OVERRIDE_FAIL_SLEEP) /\ UNCHANGED frame
       ELSE IF dist <= SAFE_DISTANCE_CM
         THEN Call("auto", "Backward", 2, "auto_back")
         ELSE Call("auto", "Forward", STEP_SIZE, "auto_forward")
  /\ UNCHANGED <<notOvr, variant, estop_event, since_cmd, inflight, sent, reported,
                 stop_in_flight, ovrVars>>

\* safe_move, from its entry to req.exec()
override_safe_move_enter(t) ==
  /\ variant = "override" /\ pc[t] = "dispatch"
  /\ IF override_safe_move_suppressed(shutdown_event)
       THEN /\ Go(t, "returned", 0)
            /\ UNCHANGED <<inflight, sent>>
       ELSE \E d \in 1..MaxIO, res \in Results :
              /\ Go(t, "execute", d)
              /\ Issue(t, frame[t].dir, frame[t].step, res)
  /\ UNCHANGED <<notOvr, variant, frame, estop_event, since_cmd, reported, stop_in_flight,
                 ovrVars>>

\* safe_move: req.exec() answered; warn on failure
override_safe_move_done(t) ==
  /\ variant = "override" /\ pc[t] = "execute" /\ Due(t)
  /\ \E c \in inflight :
       /\ c.task = t
       /\ inflight' = inflight \ {c}
       /\ reported' = c.result
  /\ since_cmd' = 0
  /\ Go(t, "returned", 0)
  /\ UNCHANGED <<notOvr, variant, frame, estop_event, sent, stop_in_flight, ovrVars>>

\* autonomous_loop after a safe_move returned: asyncio.sleep(SLEEP_DURATION)
autonomous_loop_after ==
  /\ variant = "override" /\ pc["auto"] = "returned"
  /\ IF frame["auto"].ret = "auto_back"
       THEN Go("auto", "sleep_mid", OVERRIDE_SLEEP_DURATION)
       ELSE Go("auto", "sleep", OVERRIDE_SLEEP_DURATION)
  /\ UNCHANGED <<notOvr, variant, frame, estop_event, since_cmd, inflight, sent, reported,
                 stop_in_flight, ovrVars>>

\* autonomous_loop: the sleep after Backward is over: safe_move(RightTurn, steps=1)
autonomous_loop_turn ==
  /\ variant = "override" /\ pc["auto"] = "sleep_mid" /\ Due("auto")
  /\ Call("auto", "RightTurn", 1, "auto_turn")
  /\ UNCHANGED <<notOvr, variant, estop_event, since_cmd, inflight, sent, reported,
                 stop_in_flight, ovrVars>>

\* keyboard_listener starts: the first _readline_async()
keyboard_listener_start ==
  /\ variant = "override" /\ pc["listener"] = "start" /\ ~Running
  /\ Go("listener", IF shutdown_event THEN "done" ELSE "readline", 0)
  /\ UNCHANGED <<notOvr, variant, frame, estop_event, since_cmd, inflight, sent, reported,
                 stop_in_flight, ovrVars>>

\* the lines an operator may type; "a" and "d" are like "w" and "s" with the
\* directions LeftTurn and RightTurn; "x" (stop_motion) and every other line change
\* nothing and are "other"
OverrideLines == {"o", "q", "w", "s", "other"}

\* quit: shutdown_event.set() wakes main(), and the listener leaves its loops
quit ==
  /\ shutdown_event' = TRUE
  /\ pc' = [pc EXCEPT !["listener"] = "done",
                      !["main"] = IF pc["main"] = "wait_shutdown" THEN "woken" ELSE @]
  /\ timer' = [timer EXCEPT !["listener"] = 0]

\* keyboard_listener: a line arrived
keyboard_listener_line(key) ==
  /\ variant = "override" /\ pc["listener"] = "readline" /\ ~Running
  /\ console_line' = key
  /\ CASE key = "o" /\ ~override_event ->
            /\ override_event' = TRUE
            /\ shutdown_event' = shutdown_event
            /\ Go("listener", "manual_readline", 0)
       [] key = "q" -> quit /\ UNCHANGED override_event
       [] OTHER -> Go("listener", "readline", 0) /\ UNCHANGED <<override_event, shutdown_event>>
  /\ UNCHANGED <<notOvr, variant, frame, estop_event, since_cmd, inflight, sent, reported,
                 stop_in_flight>>

\* MoveRobotDirection of a manual key
manual_direction(cmd) ==
  CASE cmd = "w" -> "Forward"
    [] cmd = "s" -> "Backward"
    [] cmd = "a" -> "LeftTurn"
    [] OTHER -> "RightTurn"

\* manual_loop: a line arrived
manual_loop_line(cmd) ==
  /\ variant = "override" /\ pc["listener"] = "manual_readline" /\ ~Running
  /\ console_line' = cmd
  /\ CASE cmd \in {"w", "s", "a", "d"} ->
            /\ Call("listener", manual_direction(cmd), STEP_SIZE, "manual")
            /\ UNCHANGED <<override_event, shutdown_event>>
       [] cmd = "o" ->
            /\ override_event' = FALSE
            /\ shutdown_event' = shutdown_event
            /\ Go("listener", IF shutdown_event THEN "done" ELSE "readline", 0)
            /\ UNCHANGED frame
       [] cmd = "q" -> quit /\ UNCHANGED <<override_event, frame>>
       [] OTHER -> Go("listener", "manual_readline", 0)
                   /\ UNCHANGED <<override_event, shutdown_event, frame>>
  /\ UNCHANGED <<notOvr, variant, estop_event, since_cmd, inflight, sent, reported,
                 stop_in_flight>>

\* manual_loop after a safe_move returned: the loop conditions
manual_loop_after ==
  /\ variant = "override" /\ pc["listener"] = "returned"
  /\ Go("listener", IF override_event /\ ~shutdown_event THEN "manual_readline"
                    ELSE IF ~shutdown_event THEN "readline" ELSE "done", 0)
  /\ UNCHANGED <<notOvr, variant, frame, estop_event, since_cmd, inflight, sent, reported,
                 stop_in_flight, ovrVars>>

\* main(): shutdown_event.wait() returned: the tasks that are not done are cancelled
main_cleanup ==
  /\ variant = "override" /\ pc["main"] = "woken" /\ ~Running
  /\ pc' = [t \in Tasks |->
              IF t = "main" THEN "done"
              ELSE IF pc[t] \in {"done", "absent"} THEN pc[t] ELSE "cancelled"]
  /\ timer' = [t \in Tasks |-> 0]
  /\ inflight' = {}
  /\ UNCHANGED <<notOvr, variant, frame, estop_event, since_cmd, sent, reported,
                 stop_in_flight, ovrVars>>

OverrideNext ==
  \/ autonomous_loop_wake
  \/ autonomous_loop_top
  \/ \E dist \in OverrideReadings : autonomous_loop_read(dist)
  \/ \E t \in OverrideMovers : override_safe_move_enter(t)
  \/ \E t \in OverrideMovers : override_safe_move_done(t)
  \/ autonomous_loop_after
  \/ autonomous_loop_turn
  \/ keyboard_listener_start
  \/ \E key \in OverrideLines : keyboard_listener_line(key)
  \/ \E cmd \in OverrideLines : manual_loop_line(cmd)
  \/ manual_loop_after
  \/ main_cleanup

----------------------------------------------------------------------------
(* Time *)

Waiting == {t \in Tasks : pc[t] \in TimedPcs}

\* time passes until the next timer runs out
Tick ==
  /\ ~Running
  /\ \A t \in Tasks : pc[t] \notin ReadyPcs
  /\ Waiting # {}
  /\ \A t \in Waiting : timer[t] > 0
  /\ LET d == CHOOSE x \in {timer[t] : t \in Waiting} :
                 \A y \in {timer[t] : t \in Waiting} : x <= y
     IN /\ timer' = [t \in Tasks |-> IF t \in Waiting THEN timer[t] - d ELSE timer[t]]
        /\ since_cmd' = Min2(AgeCap, since_cmd + d)
  /\ UNCHANGED <<variant, pc, frame, estop_event, inflight, sent, reported,
                 stop_in_flight, obsVars, batVars, posVars, ovrVars>>

----------------------------------------------------------------------------

InitShared ==
  /\ timer = [t \in Tasks |-> 0]
  /\ frame = [t \in Tasks |-> NoFrame]
  /\ estop_event = FALSE
  /\ since_cmd = AgeCap
  /\ inflight = {}
  /\ sent = NoCmd
  /\ reported = "none"
  /\ stop_in_flight = FALSE

InitObstacleVars ==
  /\ distance_buf = <<>>
  /\ consecutive_close = 0
  /\ consecutive_fail = 0
  /\ last_read = "none"
  /\ none_run = 0
  /\ prev_read = "none"
  /\ valid_reads = 0
  /\ ref_buf = <<>>

InitObstacle ==
  /\ variant = "obstacle"
  /\ pc = [t \in Tasks |-> CASE t = "main" -> "loop"
                             [] t = "listener" -> "start"
                             [] OTHER -> "absent"]

InitBatteryVars ==
  /\ is_returning = FALSE
  /\ told_low = FALSE
  /\ route_i = 0

\* MockBattery(): with or without the fields _init_ sets
InitBattery ==
  /\ variant = "battery"
  /\ pct \in {TESTING_BATTERY_START, NoAttribute}
  /\ pc = [t \in Tasks |-> CASE t = "main" -> "loop"
                             [] t = "auto" -> "absent"
                             [] OTHER -> "start"]

InitPostureVars ==
  /\ sim_pitch = 0
  /\ sim_roll = 0
  /\ warn_count = 0
  /\ trip_count = 0
  /\ level = "none"
  /\ emitted = "nothing"
  /\ read_kind = "none"

\* PostureProvider(): SIM mode unless api_sence offers an IMU/posture class
InitPosture ==
  /\ variant = "posture"
  /\ pc = [t \in Tasks |-> CASE t = "main" -> "loop"
                             [] t = "listener" -> "start"
                             [] OTHER -> "absent"]

InitOverrideVars ==
  /\ override_event = FALSE
  /\ shutdown_event = FALSE
  /\ console_line = "none"

\* main() has connected and created its two tasks
InitOverride ==
  /\ variant = "override"
  /\ pc = [t \in Tasks |-> CASE t = "main" -> "wait_shutdown"
                             [] t = "battery" -> "absent"
                             [] OTHER -> "start"]

Init ==
  /\ InitShared
  /\ InitObstacleVars
  /\ InitBatteryVars
  /\ InitPostureVars
  /\ InitOverrideVars
  /\ \/ InitObstacle /\ sim = FALSE /\ pct = TESTING_BATTERY_START
     \/ InitBattery /\ sim = FALSE
     \/ InitPosture /\ sim \in BOOLEAN /\ pct = TESTING_BATTERY_START
     \/ InitOverride /\ sim = FALSE /\ pct = TESTING_BATTERY_START

Next ==
  \/ ObstacleNext
  \/ BatteryNext
  \/ PostureNext
  \/ OverrideNext
  \/ Tick

Spec == Init /\ [][Next]_vars

----------------------------------------------------------------------------
(* The gateways alone: a caller asks for any direction and any step count, *)
(* at any time, while the listener of the script runs.                     *)

Directions == {"FORWARD", "BACKWARD"}
RequestedSteps == (0 - MaxExcess)..(MAX_STEP + MaxExcess)
CallerPauses == {0, AgeCap}

\* safe_move_robot(direction, step) / safe_move(direction, steps) / move_safe(direction, steps)
gateway_call(dir, step) ==
  /\ pc["main"] = "idle" /\ Due("main")
  /\ Call("main", dir, step, "caller")
  /\ UNCHANGED <<variant, estop_event, since_cmd, inflight, sent, reported, stop_in_flight,
                 obsVars, batVars, posVars, ovrVars>>

\* the call returned; the caller calls again after a while
gateway_return ==
  /\ pc["main"] = "returned"
  /\ \E d \in CallerPauses : Go("main", "idle", d)
  /\ frame' = [frame EXCEPT !["main"] = NoFrame]
  /\ UNCHANGED <<variant, estop_event, since_cmd, inflight, sent, reported,
                 stop_in_flight, obsVars, batVars, posVars, ovrVars>>

GatewayInit ==
  /\ InitShared
  /\ InitObstacleVars
  /\ InitBatteryVars
  /\ InitPostureVars
  /\ InitOverrideVars
  /\ sim = FALSE
  /\ pct = TESTING_BATTERY_START
  /\ variant \in {"obstacle", "battery", "posture"}
  /\ pc = [t \in Tasks |-> CASE t = "main" -> "idle"
                             [] t = "listener" -> "start"
                             [] OTHER -> "absent"]

GatewayNext ==
  \/ \E dir \in Directions, step \in RequestedSteps : gateway_call(dir, step)
  \/ gateway_return
  \/ safe_move_robot_enter
  \/ safe_move_robot_send
  \/ safe_move_robot_done
  \/ \E t \in Movers : safe_move_enter(t)
  \/ \E t \in Movers : safe_move_send(t)
  \/ \E t \in Movers : safe_move_done(t)
  \/ move_safe_enter
  \/ move_safe_done
  \/ move_safe_return
  \/ obstacle_listener_start
  \/ \E line \in ObstacleLines : obstacle_listener_line(line)
  \/ battery_listener_wake
  \/ \E line \in BatteryLines : battery_listener_line(line)
  \/ input_listener_start
  \/ \E cmd \in PostureLines : input_listener_line(cmd)
  \/ Tick

GatewaySpec == GatewayInit /\ [][GatewayNext]_vars

----------------------------------------------------------------------------
(* The override script alone, with every line its console tells apart. *)

ConsoleLines == {"e", "o", "q", "w", "a", "s", "d", "x", "other"}

ConsoleInit ==
  /\ InitShared
  /\ InitObstacleVars
  /\ InitBatteryVars
  /\ InitPostureVars
  /\ InitOverrideVars
  /\ InitOverride
  /\ sim = FALSE
  /\ pct = TESTING_BATTERY_START

ConsoleNext ==
  \/ autonomous_loop_wake
  \/ autonomous_loop_top
  \/ \E dist \in OverrideReadings : autonomous_loop_read(dist)
  \/ \E t \in OverrideMovers : override_safe_move_enter(t)
  \/ \E t \in OverrideMovers : override_safe_move_done(t)
  \/ autonomous_loop_after
  \/ autonomous_loop_turn
  \/ keyboard_listener_start
  \/ \E key \in ConsoleLines : keyboard_listener_line(key)
  \/ \E cmd \in ConsoleLines : manual_loop_line(cmd)
  \/ manual_loop_after
  \/ main_cleanup
  \/ Tick

ConsoleSpec == ConsoleInit /\ [][ConsoleNext]_vars

----------------------------------------------------------------------------
(* Properties *)

Stopped == {"done", "raised", "absent", "cancelled"}

\* the minimum command interval the running script enforces
MinInterval ==
  CASE variant = "posture" -> MOVE_COOLDOWN
    [] variant = "battery" -> RATE_LIMIT_S
    [] OTHER -> MIN_COMMAND_INTERVAL

\* the step range the running script's gateway promises
StepRange ==
  CASE variant = "posture" -> 1..MAX_STEPS
    [] variant = "battery" -> STEP_MIN..STEP_MAX
    [] OTHER -> 1..MAX_STEP

\* the obstacle loop takes the answer of get_distance_cm() in this step
ObstacleReadStep ==
  variant = "obstacle" /\ pc["main"] = "get_distance" /\ pc'["main"] # "get_distance"

\* C1: a dispatch call (safe_move_robot, safe_move, move_safe) that is entered while
\* the e-stop flag is set returns at once: no command is handed to MoveRobot by it.
C1_SuppressedWhenStopped ==
  [][\A t \in Tasks :
       (pc[t] = "dispatch" /\ estop_event)
         => (pc'[t] = "returned" /\ inflight' = inflight /\ sent' = sent)]_vars

\* a dispatch call was entered with the flag set and has returned
C1_Witness ==
  \E t \in Tasks : pc[t] = "returned" /\ frame[t].flag /\ estop_event

\* C2: no MoveRobot command starts executing at a moment when the e-stop flag is set
\* (the rate-limit sleep of the gateway would have to give way to the flag).
C2_NoStartWhileStopped == ~sent.start_flag

\* C3: in the obstacle loop, once the listener has set the flag while a command was in
\* flight, no new command is issued, and the answer of the command in flight is still
\* processed: the time stamp of the last command is renewed and the result reported.
C3_InFlightResultProcessed ==
  [][(variant = "obstacle" /\ stop_in_flight)
       => /\ inflight' \subseteq inflight
          /\ inflight' # inflight
               => (since_cmd' = 0 /\ \E c \in inflight : reported' = c.result)]_vars

\* the flag was set with a command in flight, and that command then failed
C3_Witness ==
  /\ variant = "obstacle" /\ stop_in_flight
  /\ inflight = {} /\ reported = "Failed" /\ since_cmd = 0

\* C4: the e-stop flag, once set, stays set.
C4_EStopTerminal == [][estop_event => estop_event']_vars

\* the flag is set and every task of the session has ended
C4_Witness == estop_event /\ \A t \in Tasks : pc[t] \in Stopped

\* C5: with the flag set, a loop that comes to its condition (the obstacle loop, the
\* posture monitor, the wander loop, the battery poll loop, the return route) ends
\* there, and no sensor read or battery poll is begun.
C5_LoopEndsOnStop ==
  [][estop_event
       => /\ \A t \in Tasks : pc[t] \in {"loop", "route"} => pc'[t] = "done"
          /\ \A t \in Tasks : pc'[t] \in {"get_distance", "get_attitude"} => pc[t] = pc'[t]
          /\ pct' = pct]_vars

\* the operator stopped the posture monitor, which has left its loop
C5_Witness ==
  /\ variant = "posture" /\ estop_event
  /\ pc["main"] = "done" /\ pc["listener"] = "done"

\* C6: whatever step count is asked for, the step handed to MoveRobot is in range.
C6_StepClamped == sent.dir # "NONE" => sent.step \in StepRange

\* a command was issued for a request of zero or fewer steps
C6_Witness == sent.dir # "NONE" /\ sent.req <= 0 /\ sent.step = 1

C8_Serialized == Cardinality(inflight) <= 1

\* C9: a failed read (None) ends the obstacle loop with the flag set exactly when it
\* is the SENSOR_FAILURE_LIMIT-th in a row; an answered read resets the count; after
\* the loop has ended this way nothing is read and nothing is dispatched.
C9_FailureLimit ==
  [][/\ ObstacleReadStep /\ last_read' = "failed" /\ none_run' >= SENSOR_FAILURE_LIMIT
          => (estop_event' /\ pc'["main"] = "done")
     /\ ObstacleReadStep /\ last_read' = "failed" /\ none_run' < SENSOR_FAILURE_LIMIT
          => (estop_event' = estop_event /\ pc'["main"] = "sleep")
     /\ ObstacleReadStep /\ last_read' # "failed" => consecutive_fail' = 0
     /\ (variant = "obstacle" /\ none_run >= SENSOR_FAILURE_LIMIT)
          => (pc'["main"] = "done" /\ inflight' = {} /\ sent' = sent)]_vars

\* the loop ended on the fifth failed read in a row
C9_Witness ==
  /\ variant = "obstacle" /\ none_run = SENSOR_FAILURE_LIMIT
  /\ estop_event /\ pc["main"] = "done"

C11_DiscardedLeavesNoTrace ==
  variant = "obstacle" => median(distance_buf) = median(ref_buf)

\* a valid reading was filtered right after a discarded one, with valid ones before
C11_Witness ==
  /\ variant = "obstacle" /\ prev_read = "out_of_range" /\ last_read = "valid"
  /\ Len(distance_buf) >= 2

\* C12: the window never holds more than MEDIAN_WINDOW samples, and a valid reading
\* that arrives at a full window pushes the oldest one out.
C12_WindowBounded ==
  [][/\ Len(distance_buf') <= MEDIAN_WINDOW
     /\ Len(distance_buf') = Min2(valid_reads', MEDIAN_WINDOW)
     /\ (ObstacleReadStep /\ last_read' = "valid" /\ Len(distance_buf) = MEDIAN_WINDOW)
          => /\ Len(distance_buf') = MEDIAN_WINDOW
             /\ \A i \in 1..(MEDIAN_WINDOW - 1) : distance_buf'[i] = distance_buf[i + 1]]_vars

\* a fourth valid reading arrived at the full window
C12_Witness ==
  /\ variant = "obstacle" /\ valid_reads > MEDIAN_WINDOW
  /\ Len(distance_buf) = MEDIAN_WINDOW /\ last_read = "valid"

\* the obstacle loop takes a reading that passes the sanity check
ObstacleValidStep == ObstacleReadStep /\ last_read' = "valid"

\* the posture monitor takes a sample (SIM mode, or the SDK call ended)
PostureSampleStep ==
  /\ variant = "posture"
  /\ \/ pc["main"] = "loop" /\ pc'["main"] \in {"sleep", "dispatch"}
     \/ pc["main"] = "get_attitude" /\ pc'["main"] # "get_attitude"

\* C13: a sample of another level resets the counter of a level: a clear filtered
\* reading zeroes the close counter and leads to no avoidance, a sample that is not
\* trip-level zeroes the trip counter and leads to no recovery, a sample that is not
\* warn-level zeroes the warn counter and leads to no warning; so a level seen one
\* time short of its confirm count and then interrupted is never confirmed.
C13_DebounceReset ==
  [][/\ (ObstacleValidStep /\ median(distance_buf') >= 2 * SAFE_DISTANCE_CM)
          => (consecutive_close' = 0 /\ frame'["main"].ret = "forward")
     /\ (ObstacleValidStep /\ median(distance_buf') < 2 * HARD_STOP_CM)
          => frame'["main"].ret = "hard"
     /\ (PostureSampleStep /\ level' # "trip")
          => (trip_count' = 0 /\ emitted' # "recovery")
     /\ (PostureSampleStep /\ level' # "warn")
          => (warn_count' = 0 /\ emitted' # "warning")]_vars

\* a close reading (count 1 of 2) was followed by a clear one: no avoidance
C13_Witness ==
  /\ variant = "obstacle" /\ valid_reads = 2 /\ distance_buf = <<15, 30>>
  /\ consecutive_close = 0 /\ frame["main"].ret = "forward"

\* C14: a confirmation comes with the sample that takes the counter to the confirm
\* count and with no other, and the counter is back at zero after it (after the
\* avoidance maneuver, after the warning, after the recovery), so the samples of the
\* same level that follow do not each confirm again.
C14_EdgeTriggered ==
  [][/\ ObstacleValidStep
          => (frame'["main"].ret = "avoid_back"
                <=> /\ median(distance_buf') >= 2 * HARD_STOP_CM
                    /\ median(distance_buf') < 2 * SAFE_DISTANCE_CM
                    /\ consecutive_close = OBSTACLE_CONFIRM_READS - 1)
     /\ (variant = "obstacle" /\ pc["main"] = "returned" /\ frame["main"].ret = "avoid_turn")
          => consecutive_close' = 0
     /\ PostureSampleStep
          => /\ emitted' = "warning" <=> (level' = "warn" /\ warn_count = DEBOUNCE - 1)
             /\ emitted' = "warning" => warn_count' = 0
             /\ emitted' = "recovery" <=> (level' = "trip" /\ trip_count = DEBOUNCE - 1)
     /\ (variant = "posture" /\ pc["main"] = "returned"
           /\ frame["main"].ret = "recover_forward")
          => trip_count' = 0]_vars

\* the third warn-level sample in a row gave the warning and zeroed the counter
C14_Witness ==
  variant = "posture" /\ emitted = "warning" /\ level = "warn" /\ warn_count = 0

\* C15: a filtered reading of 15 cm is Soft; with the close counter at 0 it only
\* counts (the loop goes on to its forward step), with the counter at 1 it starts the
\* avoidance: BACKWARD by BACKWARD_STEPS, then RIGHTWARD by 2.
C15_SoftConfirmedOnSecond ==
  [][/\ (ObstacleValidStep /\ median(distance_buf') = 2 * 15)
          => /\ consecutive_close = 0
                  => (consecutive_close' = 1 /\ frame'["main"].ret = "forward")
             /\ consecutive_close = 1
                  => /\ frame'["main"].ret = "avoid_back"
                     /\ frame'["main"].dir = "BACKWARD"
                     /\ frame'["main"].req = BACKWARD_STEPS
     /\ (variant = "obstacle" /\ pc["main"] = "returned" /\ frame["main"].ret = "avoid_back")
          => /\ frame'["main"].ret = "avoid_turn"
             /\ frame'["main"].dir = "RIGHTWARD" /\ frame'["main"].req = 2]_vars

\* two readings of 15 cm from the start: the turn of the avoidance has been sent
C15_Witness ==
  /\ variant = "obstacle" /\ valid_reads = 2 /\ distance_buf = <<15, 15>>
  /\ sent.dir = "RIGHTWARD" /\ frame["main"].ret = "avoid_turn"

\* C16: a filtered reading under HARD_STOP_CM, whatever the close counter is, makes
\* the loop call for BACKWARD in that iteration; with the flag clear at that moment
\* the command is sent, it is the only command sent from then on, and when it has
\* returned the flag is set and the loop has ended.
C16_HardStopAtOnce ==
  [][/\ (ObstacleValidStep /\ median(distance_buf') < 2 * HARD_STOP_CM)
          => /\ frame'["main"].ret = "hard" /\ frame'["main"].dir = "BACKWARD"
             /\ pc'["main"] = "dispatch"
     /\ (variant = "obstacle" /\ frame["main"].ret = "hard")
          => /\ Cardinality(inflight') > Cardinality(inflight)
                  => (sent'.dir = "BACKWARD" /\ pc'["main"] = "execute")
             /\ (pc["main"] = "dispatch" /\ ~estop_event)
                  => pc'["main"] \in {"rate_sleep", "execute"}
             /\ pc["main"] = "rate_sleep" => pc'["main"] \in {"rate_sleep", "execute"}
             /\ pc["main"] = "execute" => pc'["main"] \in {"execute", "returned"}
             /\ pc["main"] = "returned" => (estop_event' /\ pc'["main"] = "done")
             /\ pc["main"] = "done" => (pc'["main"] = "done" /\ inflight' = inflight)]_vars

\* one reading of 5 cm from the start: BACKWARD was sent and the loop has ended
C16_Witness ==
  /\ variant = "obstacle" /\ distance_buf = <<5>> /\ frame["main"].ret = "hard"
  /\ sent.dir = "BACKWARD" /\ estop_event /\ pc["main"] = "done"

\* C17 as stated: after the maneuver of a hard stop (obstacle) or of a tilt trip
\* (posture) the loop is still running and the flag is clear.
C17_HardStopResumes ==
  [][(pc["main"] = "returned" /\ frame["main"].ret \in {"hard", "recover_forward"}
        /\ ~estop_event)
       => (~estop_event' /\ pc'["main"] = "sleep")]_vars

\* C17 amended: the tilt recovery of the posture monitor is non-terminal (the loop
\* sleeps dt and samples again); the hard stop of the obstacle loop is terminal: when
\* its BACKWARD has returned the flag is set and the loop ends.
C17_OnlyTiltRecoveryResumes ==
  [][/\ (variant = "posture" /\ pc["main"] = "returned"
           /\ frame["main"].ret = "recover_forward" /\ ~estop_event)
          => (~estop_event' /\ pc'["main"] = "sleep" /\ timer'["main"] = dt)
     /\ (variant = "obstacle" /\ pc["main"] = "returned" /\ frame["main"].ret = "hard")
          => (estop_event' /\ pc'["main"] = "done")]_vars

\* the posture monitor is sampling again after a recovery
C17_Witness ==
  /\ variant = "posture" /\ frame["main"].ret = "recover_forward" /\ ~estop_event
  /\ pc["main"] \in {"sleep", "get_attitude"} /\ trip_count = 0 /\ sent.dir = "FORWARD"

\* C18: a raw reading under HARD_STOP_CM trips the hard stop in the iteration that
\* reads it, whatever the window held.
C18_RawHardStop ==
  [][(ObstacleValidStep /\ distance_buf'[Len(distance_buf')] < HARD_STOP_CM)
       => frame'["main"].ret = "hard"]_vars

\* C19: while override_event is set, autonomous_loop hands no command to MoveRobot.
C19_AutonomySuspended ==
  [][(variant = "override" /\ override_event)
       => \A c \in inflight' \ inflight : c.task # "auto"]_vars

\* C20: a manual command is sent with a step within 1..MAX_STEP and, after the
\* command before it (manual or autonomous) completed, not without an interval.
C20_ManualRateLimited ==
  (variant = "override" /\ sent.task = "listener")
    => (sent.step \in 1..MAX_STEP /\ ~sent.overlap /\ sent.gap > 0)

\* C21: the low-battery return is one-shot: the latch, once set, stays set; the
\* return is begun only by the poll that sets the latch; go_to_idle_hub is entered
\* from that return alone and with the route not begun, the route only advances, and
\* after the latch the battery is not polled again: the return path is entered at
\* most once in a session.
C21_ReturnOneShot ==
  [][/\ is_returning => is_returning'
     /\ (pc'["battery"] = "sleep_pre" /\ pc["battery"] # "sleep_pre")
          => (pc["battery"] = "loop" /\ ~is_returning /\ is_returning' /\ route_i = 0)
     /\ route_i' # route_i => route_i' = route_i + 1
     /\ (route_i = 0 /\ route_i' = 1) => (pc["battery"] = "sleep_pre" /\ is_returning)
     /\ (variant = "battery" /\ is_returning) => pc'["battery"] # "loop"]_vars

\* the return is under way: a route step was sent with the battery at or below the
\* threshold
C21_Witness ==
  /\ variant = "battery" /\ is_returning /\ pct <= BATTERY_LOW_THRESHOLD
  /\ route_i >= 1 /\ sent.task = "battery"

Answered(t) == \E c \in inflight \ inflight' : c.task = t

\* C23 as stated: in the obstacle, battery and posture scripts the flag is written by
\* the listener task alone, and everything else (the time stamp of the last command,
\* the returning latch, the counters and the window, the simulated attitude) by the
\* main control loop alone.
C23_SingleWriter ==
  [][variant # "override"
       => /\ estop_event' # estop_event => pc'["listener"] # pc["listener"]
          /\ (\/ \E t \in Tasks : Answered(t) /\ since_cmd' = 0
              \/ is_returning' # is_returning
              \/ <<distance_buf, consecutive_close, consecutive_fail>>'
                   # <<distance_buf, consecutive_close, consecutive_fail>>
              \/ <<warn_count, trip_count>>' # <<warn_count, trip_count>>
              \/ <<sim, sim_pitch, sim_roll>>' # <<sim, sim_pitch, sim_roll>>)
               => pc'["main"] # pc["main"]]_vars

\* C23 amended: the flag is only ever set, by the listener on a line "e", by the
\* obstacle loop (failure limit, hard stop) and by the battery script's return task
\* (stop_all); the returning latch is written by the return task, a background task;
\* the time stamp is renewed by whichever task's command was answered, in the
\* battery script the main loop or the return task; the window and the counters are
\* written by the main loop alone; the simulated attitude is written by the listener
\* alone and only in SIM mode, and the SIM switch by the main loop alone.
C23_Writers ==
  [][variant # "override"
       => /\ estop_event' # estop_event
               => /\ estop_event'
                  /\ \/ pc["listener"] = "readline" /\ pc'["listener"] = "done"
                     \/ /\ variant = "obstacle" /\ pc'["main"] = "done"
                        /\ pc["main"] \in {"get_distance", "returned"}
                     \/ /\ variant = "battery" /\ pc'["battery"] = "done"
                        /\ pc["battery"] \in {"route", "returned"}
          /\ is_returning' # is_returning => (pc["battery"] = "loop" /\ is_returning')
          /\ \A t \in Tasks : Answered(t)
               => (t = "main" \/ (variant = "battery" /\ t = "battery"))
          /\ (\/ <<distance_buf, consecutive_close, consecutive_fail>>'
                   # <<distance_buf, consecutive_close, consecutive_fail>>
              \/ <<warn_count, trip_count>>' # <<warn_count, trip_count>>
              \/ sim' # sim)
               => (pc'["main"] # pc["main"] /\ pc'["listener"] = pc["listener"])
          /\ <<sim_pitch, sim_roll>>' # <<sim_pitch, sim_roll>>
               => (variant = "posture" /\ sim /\ pc["listener"] = "readline"
                   /\ pc'["main"] = pc["main"])]_vars

\* the return task of the battery script has set the flag (a route step was not ok)
\* and the time stamp was last renewed by its command; the listener wrote nothing
C23_Witness ==
  /\ variant = "battery" /\ estop_event /\ pc["battery"] = "done"
  /\ pc["listener"] \in {"readline", "pause"} /\ is_returning /\ sent.task = "battery"

\* the console of the override script takes a line in this step
ConsoleStep ==
  /\ variant = "override"
  /\ pc["listener"] \in {"readline", "manual_readline"}
  /\ pc'["listener"] # "cancelled"
  /\ console_line' # console_line \/ pc'["listener"] # pc["listener"]

\* nothing but the record of the last line changes
ConsoleLineIgnored ==
  UNCHANGED <<sharedVars, obsVars, batVars, posVars, override_event, shutdown_event>>

\* C24 as stated, the part that fails: a line "e" triggers the emergency stop.
C24_EStopKey ==
  [][(ConsoleStep /\ console_line' = "e") => (shutdown_event' \/ estop_event')]_vars

\* C24 amended: "o" toggles the override (keyboard_listener sets it and enters manual
\* mode, manual_loop clears it and leaves), "q" sets shutdown_event and ends the
\* listener; in manual mode each of w/a/s/d calls safe_move once with its direction
\* and STEP_SIZE, which sends exactly that command; "x" and every other line, "e"
\* among them, change nothing, as do w/a/s/d outside manual mode.
C24_Console ==
  [][/\ (ConsoleStep /\ pc["listener"] = "readline")
          => /\ console_line' = "o"
                  => (~override_event /\ override_event'
                      /\ pc'["listener"] = "manual_readline" /\ ~shutdown_event')
             /\ console_line' = "q"
                  => (shutdown_event' /\ pc'["listener"] = "done"
                      /\ override_event' = override_event)
             /\ console_line' \notin {"o", "q"} => ConsoleLineIgnored
     /\ (ConsoleStep /\ pc["listener"] = "manual_readline")
          => /\ console_line' = "o"
                  => (override_event /\ ~override_event'
                      /\ pc'["listener"] = "readline" /\ ~shutdown_event')
             /\ console_line' = "q"
                  => (shutdown_event' /\ pc'["listener"] = "done"
                      /\ override_event' = override_event)
             /\ console_line' \in {"w", "a", "s", "d"}
                  => /\ pc'["listener"] = "dispatch"
                     /\ frame'["listener"].step = STEP_SIZE
                     /\ frame'["listener"].dir =
                          (CASE console_line' = "w" -> "Forward"
                             [] console_line' = "s" -> "Backward"
                             [] console_line' = "a" -> "LeftTurn"
                             [] OTHER -> "RightTurn")
                     /\ UNCHANGED <<override_event, shutdown_event, inflight>>
             /\ console_line' \in {"x", "e", "other"} => ConsoleLineIgnored
     /\ (variant = "override" /\ pc["listener"] = "dispatch")
          => /\ pc'["listener"] = "execute"
             /\ \E c \in inflight' :
                  /\ inflight' \ inflight = {c}
                  /\ c.task = "listener" /\ c.step = STEP_SIZE
                  /\ c.dir = frame["listener"].dir
     /\ (variant = "override" /\ pc["listener"] \in {"readline", "manual_readline"})
          => \A c \in inflight' \ inflight : c.task # "listener"]_vars

\* a line "e" was read in manual mode: the override is still engaged and no flag is set
C24_Witness ==
  /\ variant = "override" /\ console_line = "e" /\ pc["listener"] = "manual_readline"
  /\ override_event /\ ~shutdown_event /\ ~estop_event /\ sent.task = "listener"

\* C25 as stated, the part that fails: a filtered distance equal to HARD_STOP_CM, like
\* every one under it, is Hard.
C25_HardAtThreshold ==
  [][(ObstacleValidStep /\ median(distance_buf') <= 2 * HARD_STOP_CM)
       => frame'["main"].ret = "hard"]_vars

\* C25 amended: a filtered distance is Hard exactly when it is under HARD_STOP_CM,
\* Soft (it adds to the close counter) when it is at least HARD_STOP_CM and under
\* SAFE_DISTANCE_CM, Clear (the counter is zeroed, the loop steps forward) from
\* SAFE_DISTANCE_CM on; a tilt is Hard (it adds to the trip counter) when |pitch| or
\* |roll| is at least SAFE_TILT_TRIP, else Soft (it adds to the warn counter) when
\* one is at least SAFE_TILT_WARN, else Clear (both counters zeroed).
C25_Thresholds ==
  [][/\ ObstacleValidStep
          => /\ frame'["main"].ret = "hard" <=> median(distance_buf') < 2 * HARD_STOP_CM
             /\ (/\ median(distance_buf') >= 2 * HARD_STOP_CM
                 /\ median(distance_buf') < 2 * SAFE_DISTANCE_CM)
                  => consecutive_close' = consecutive_close + 1
             /\ median(distance_buf') >= 2 * SAFE_DISTANCE_CM
                  => (consecutive_close' = 0 /\ frame'["main"].ret = "forward")
     /\ PostureSampleStep
          => /\ level' = "trip" => (trip_count' = trip_count + 1 /\ warn_count' = 0)
             /\ level' = "warn"
                  => /\ trip_count' = 0
                     /\ warn_count' = IF warn_count + 1 >= DEBOUNCE THEN 0
                                      ELSE warn_count + 1
             /\ level' = "ok" => (trip_count' = 0 /\ warn_count' = 0)
             /\ sim' => level' = (IF Abs(sim_pitch) >= 18 \/ Abs(sim_roll) >= 18 THEN "trip"
                                  ELSE IF Abs(sim_pitch) >= 10 \/ Abs(sim_roll) >= 10
                                    THEN "warn" ELSE "ok")]_vars

\* a first reading of exactly HARD_STOP_CM was counted as Soft, and the loop stepped
\* forward
C25_Witness ==
  /\ variant = "obstacle" /\ distance_buf = <<HARD_STOP_CM>> /\ consecutive_close = 1
  /\ frame["main"].ret = "forward" /\ sent.dir = "FORWARD" /\ ~estop_event

\* the tasks that run a control loop in the running script (the return task of the
\* battery script runs a fixed route, not a loop)
ControlLoops ==
  CASE variant = "override" -> {"auto", "listener"}
    [] OTHER -> {"main"}

\* C26: a MoveRobot answer that is not a success is reported and nothing more: the
\* step that takes the answer sets no flag and returns to the caller; the control
\* loop that called goes on as after a success (unless it was the hard stop's
\* command, after which the loop ends whatever the answer), and at its next loop
\* condition it goes on to the next iteration.
C26_FailureNonFatal ==
  [][\A t \in ControlLoops :
       /\ (/\ pc[t] = "execute" /\ pc'[t] # "cancelled"
           /\ \E c \in inflight \ inflight' : c.task = t /\ c.result = "Failed")
            => /\ reported' = "Failed"
               /\ estop_event' = estop_event /\ shutdown_event' = shutdown_event
               /\ pc'[t] \in {"returned", "cooldown"}
       /\ (pc[t] = "returned" /\ reported = "Failed" /\ frame[t].ret # "hard")
            => /\ estop_event' = estop_event /\ shutdown_event' = shutdown_event
               /\ pc'[t] \in {"sleep", "sleep_forward", "sleep_mid", "dispatch",
                               "manual_readline"}
       /\ (pc[t] = "loop" /\ reported = "Failed"
             /\ ~estop_event /\ ~shutdown_event /\ ~is_returning)
            => /\ estop_event' = estop_event /\ shutdown_event' = shutdown_event
               /\ pc'[t] \in {"get_distance", "get_attitude", "dispatch", "pause",
                               "sleep"}]_vars

\* the obstacle loop sends FORWARD again in the iteration after a command failed
C26_Witness ==
  /\ variant = "obstacle" /\ reported = "Failed" /\ ~estop_event
  /\ pc["main"] = "execute" /\ frame["main"].ret = "forward" /\ sent.dir = "FORWARD"

\* C27: an iteration of the obstacle loop whose filtered distance is under
\* SAFE_DISTANCE_CM calls for no FORWARD command, the soft hazard confirmed or not.
C27_NoForwardWhenClose ==
  [][(ObstacleValidStep /\ median(distance_buf') < 2 * SAFE_DISTANCE_CM)
       => frame'["main"].dir # "FORWARD"]_vars

\* C29: a get_pitch_roll() whose SDK call answered a result that is not a success
\* leaves the warn and trip counters of posture_monitor as they were.
C29_FailedReadNotCounted ==
  [][(PostureSampleStep /\ read_kind' = "failed")
       => (warn_count' = warn_count /\ trip_count' = trip_count)]_vars

\* C30: an iteration of the obstacle loop whose read failed (None) or whose sample
\* was discarded as out of range leaves the window and the close counter as they
\* were and calls for no command: the loop sleeps and starts its next iteration, or,
\* at the failure limit, ends.
C30_NoUpdateNoMotion ==
  [][(ObstacleReadStep /\ last_read' \in {"failed", "out_of_range"})
       => /\ distance_buf' = distance_buf
          /\ consecutive_close' = consecutive_close
          /\ frame' = frame /\ inflight' = inflight /\ sent' = sent
          /\ \/ pc'["main"] = "sleep"
             \/ pc'["main"] = "done" /\ last_read' = "failed" /\ estop_event']_vars

\* a read failed right after a close reading was counted: the window and the count
\* are kept through the pause
C30_Witness ==
  /\ variant = "obstacle" /\ last_read = "failed" /\ prev_read = "valid"
  /\ pc["main"] = "sleep" /\ consecutive_close = 1 /\ distance_buf = <<15>>

====
